---------------------------- MODULE Spec2Model ----------------------------
(***************************************************************************)
(* Decision engine (classifier, VIP override, escalator), state store and  *)
(* batch orchestrators of universal-mail--automation.                      *)
(*                                                                         *)
(* Text is a sequence of words; a pattern of the taxonomy is one word and  *)
(* re.search(pattern, text, re.IGNORECASE) is "some word of the text is    *)
(* the pattern, case folded"; the catch-all pattern ".*" matches any text. *)
(***************************************************************************)
EXTENDS Integers, Sequences, FiniteSets, TLC

VARIABLES
    rules,        \* core.rules.LABEL_RULES, the table _find_best_label scans
    VIP_SENDERS,  \* core.rules.VIP_SENDERS, an insertion-ordered dict
    registered,   \* the keys given to add_vip_sender, in the order of their first registration
    call,         \* the last call of the decision engine and what it returned
    file,         \* the state file on disk
    state,        \* StateManager.state of the live StateManager
    saved,        \* the arguments of the last StateManager.save and how its write ended
    reader        \* what another process loading the state file observed

VARIABLES
    impl,               \* the orchestrator in use: run_labeler ("cli") or GmailLabeler ("gmail")
    pc,                 \* where the run is
    query,              \* the query of the run: "default" is "has:nouserlabels"
    limit,              \* run_labeler's limit
    has_state,          \* run_labeler was given a state_file
    dry_run,            \* run_labeler's dry_run
    page_token,         \* the local page_token of the run
    total_processed,    \* total_processed / self.total_processed
    stats,              \* stats / self.stats
    processed_this_run, \* run_labeler's processed_this_run
    page,               \* the page LIST returned: its message ids and next cursor
    chunks,             \* the mutation chunks of the page still to submit
    count,              \* len(actions) / len(batch_results) of the page
    log,                \* _execute_with_backoff: how each attempt of the call ended
    delay,              \* _execute_with_backoff: delay
    waits,              \* _execute_with_backoff: the sleeps of the call so far
    exit,               \* how the last run ended
    submitted,          \* the messages whose mutation some run has submitted
    runs,               \* runs started so far
    first_list,         \* the cursor of the first LIST of the run, -1 before it
    pages_done,         \* pages of the run taken through MUTATE
    pages_saved,        \* pages_done at the last page checkpoint whose write succeeded
    started,            \* the record the run loaded when it started
    queries,            \* the queries of the runs so far
    dry_seen,           \* some run so far was a dry run
    result,             \* run_labeler's ProcessingResult
    batch_result,       \* the ProcessingResult of the apply_actions under way
    failed              \* the chunks of the run answered with an error, and their messages

engineVars == <<rules, VIP_SENDERS, registered, call>>
storeVars == <<file, state, saved, reader>>
paramVars == <<impl, query, limit, has_state, dry_run>>
localVars == <<page_token, total_processed, stats, processed_this_run, page, chunks, count>>
backoffVars == <<log, delay, waits>>
historyVars == <<exit, submitted, runs, first_list, pages_done, pages_saved, started,
                 queries, dry_seen>>
resultVars == <<result, batch_result, failed>>
runVars == <<pc, paramVars, localVars, backoffVars, historyVars, resultVars>>
vars == <<engineVars, storeVars, runVars>>

(***************************************************************************)
(* Bounds                                                                  *)
(***************************************************************************)
MaxSubject == 1     \* words in a subject
MaxAge == 80        \* largest message age, in hours
MaxStored == 1      \* largest cursor, total and label count handed to save directly
NumMessages == 4    \* messages the query lists
MaxRuns == 2        \* runs started on one state file
MaxLimit == 2       \* largest limit given to run_labeler
LIST_PAGE_SIZE == 2     \* gmail_labeler.LIST_PAGE_SIZE (500), scaled down
BATCH_LIMIT == 2        \* the 100 of run_labeler's batch_limit, scaled down
BATCH_MODIFY_SIZE == 1  \* BATCH_MODIFY_SIZE (1000), scaled down

(***************************************************************************)
(* Program constants                                                       *)
(***************************************************************************)
BASE_BACKOFF_SECONDS == 10
max_retries == 5

(***************************************************************************)
(* Words, case folding and matching                                        *)
(***************************************************************************)
LowerWords == {"github", "cloudflare", "unity", "chase", "statement"}
UpperWords == {"CHASE"}
Words == LowerWords \cup UpperWords

\* str.lower() on one word
LowerWord(w) == IF w = "CHASE" THEN "chase" ELSE w

\* str.lower() on a text
Lower(t) == [i \in 1..Len(t) |-> LowerWord(t[i])]

\* re.search(pattern, text, re.IGNORECASE)
Search(pattern, text) ==
    \/ pattern = ".*"
    \/ \E i \in 1..Len(text) : LowerWord(text[i]) = LowerWord(pattern)

\* f"{sender} {subject}".lower()
CombinedText(sender, subject) == Lower(sender \o <<" ">> \o subject)

(***************************************************************************)
(* Priority tiers                                                          *)
(***************************************************************************)
PRIORITY_TIERS ==
    [n \in 1..4 |->
        CASE n = 1 -> [number |-> 1, name |-> "Critical", folder |-> "Action/Critical",
                       keep_in_inbox |-> TRUE, star |-> TRUE]
          [] n = 2 -> [number |-> 2, name |-> "Important", folder |-> "Action/Important",
                       keep_in_inbox |-> TRUE, star |-> FALSE]
          [] n = 3 -> [number |-> 3, name |-> "Delegate", folder |-> "Action/Delegate",
                       keep_in_inbox |-> FALSE, star |-> FALSE]
          [] n = 4 -> [number |-> 4, name |-> "Reference", folder |-> "",
                       keep_in_inbox |-> FALSE, star |-> FALSE]]

(***************************************************************************)
(* Taxonomy: the rules of core/rules.py that the words above can match,    *)
(* in declaration order, with their priority, tier and time sensitivity.   *)
(***************************************************************************)
Rule(n, ps, p, t, ts) ==
    [name |-> n, patterns |-> ps, priority |-> p, tier |-> t, time_sensitive |-> ts]

LABEL_RULES ==
    << Rule("Dev/GitHub",         <<"github">>,     1,   2, FALSE),
       Rule("Dev/Infrastructure", <<"cloudflare">>, 3,   3, FALSE),
       Rule("Dev/GameDev",        <<"unity">>,      3,   3, FALSE),
       Rule("Finance/Banking",    <<"chase">>,      7,   1, TRUE),
       Rule("Finance/Payments",   <<"statement">>,  8,   2, TRUE),
       Rule("Misc/Other",         <<".*">>,         999, 4, FALSE) >>

\* The same rules declared in another order: LABEL_RULES is a module-level
\* dict that _find_best_label reads at call time, and nothing in the scan
\* relies on the table being sorted by priority.
Redeclared(t) == [i \in 1..Len(t) |-> t[Len(t) + 1 - i]]

Taxonomies == {LABEL_RULES, Redeclared(LABEL_RULES)}

RuleNames(t) == {t[i].name : i \in 1..Len(t)}

\* any(re.search(pattern, text) for pattern in rule["patterns"])
RuleMatches(rule, text) ==
    \E j \in 1..Len(rule.patterns) : Search(rule.patterns[j], text)


(***************************************************************************)
(* Classifier: _find_best_label                                            *)
(***************************************************************************)
\* The loop of _find_best_label from rule i on; best_match "" is None.
RECURSIVE FindBestScan(_, _, _, _, _)
FindBestScan(t, text, i, best_match, best_priority) ==
    IF i > Len(t) THEN best_match
    ELSE IF RuleMatches(t[i], text) /\ t[i].priority < best_priority
         THEN FindBestScan(t, text, i + 1, t[i].name, t[i].priority)
         ELSE FindBestScan(t, text, i + 1, best_match, best_priority)

\* A scan whose starting best_priority is the catch-all's own 999 and that
\* returns best_match without the "Misc/Other" fallback.
FindBestNoFallback(t, text) == FindBestScan(t, text, 1, "", 999)

\* A scan that takes a rule on "<=", so the last declared of a tie wins.
RECURSIVE FindBestScanLastTie(_, _, _, _, _)
FindBestScanLastTie(t, text, i, best_match, best_priority) ==
    IF i > Len(t) THEN best_match
    ELSE IF RuleMatches(t[i], text) /\ t[i].priority <= best_priority
         THEN FindBestScanLastTie(t, text, i + 1, t[i].name, t[i].priority)
         ELSE FindBestScanLastTie(t, text, i + 1, best_match, best_priority)

FindBestLastTie(t, text) ==
    LET b == FindBestScanLastTie(t, text, 1, "", 9999)
    IN  IF b = "" THEN "Misc/Other" ELSE b

\* best_match or "Misc/Other"
find_best_label(t, text) ==
    LET b == FindBestScan(t, text, 1, "", 9999)
    IN  IF b = "" THEN "Misc/Other" ELSE b

\* LABEL_RULES.get(label): the index of the rule named label, 0 for none
RuleIndex(t, label) ==
    IF \E i \in 1..Len(t) : t[i].name = label
    THEN CHOOSE i \in 1..Len(t) : t[i].name = label
    ELSE 0

(***************************************************************************)
(* VIP registry                                                            *)
(***************************************************************************)
VIPSender(k, p, t, s, o) ==
    [key |-> k, pattern |-> p, tier |-> t, star |-> s, label_override |-> o]

VipKeys == {"vip-a", "vip-b"}
VipPatterns == {"chase", "github"}
VipTiers == {1, 3}
VipOverrides == {"", "VIP/Boss"}    \* "" is None: no label_override

\* Mutant: registering a known key again moves its entry to the end.
AddVipMovesToEnd(reg, k, p, t, s, o) ==
    Append(SelectSeq(reg, LAMBDA e : e.key # k), VIPSender(k, p, t, s, o))

\* VIP_SENDERS[key] = VIPSender(...): a new key goes last, a known key keeps
\* its place and takes the new value
add_vip_sender(reg, k, p, t, s, o) ==
    IF \E i \in 1..Len(reg) : reg[i].key = k
    THEN [i \in 1..Len(reg) |->
              IF reg[i].key = k THEN VIPSender(k, p, t, s, o) ELSE reg[i]]
    ELSE Append(reg, VIPSender(k, p, t, s, o))

VipMatches(vip, sender) == Search(vip.pattern, Lower(sender))

\* The index of the first entry, in dict order, whose pattern matches the
\* sender; 0 is None
check_vip_sender(reg, sender) ==
    IF \E i \in 1..Len(reg) : VipMatches(reg[i], sender)
    THEN CHOOSE i \in 1..Len(reg) :
             /\ VipMatches(reg[i], sender)
             /\ \A j \in 1..(i - 1) : ~VipMatches(reg[j], sender)
    ELSE 0

(***************************************************************************)
(* Decision engine: categorize_with_tier                                   *)
(***************************************************************************)
CategorizationResult(l, t, ts, tc, v) ==
    [label |-> l, tier |-> t, time_sensitive |-> ts, tier_config |-> tc, is_vip |-> v,
     raised |-> FALSE]

\* rule = LABEL_RULES[label] on a label that is no key of the table
KeyError ==
    [label |-> "", tier |-> 0, time_sensitive |-> FALSE,
     tier_config |-> PRIORITY_TIERS[4], is_vip |-> FALSE, raised |-> TRUE]

\* PRIORITY_TIERS.get(tier, PRIORITY_TIERS[d])
TierConfig(tier, d) == IF tier \in 1..4 THEN PRIORITY_TIERS[tier] ELSE PRIORITY_TIERS[d]

\* The VIP branch with the tier taken from the label's rule.
CategorizeVipRuleTier(t, reg, v, sender, subject) ==
    LET label == find_best_label(t, CombinedText(sender, subject))
        r     == RuleIndex(t, label)
    IN  CategorizationResult(label, t[r].tier, t[r].time_sensitive,
                             TierConfig(t[r].tier, 4), TRUE)

\* The branch of categorize_with_tier for a sender that VIP entry v matches
CategorizeVip(t, reg, v, sender, subject) ==
    LET vip   == reg[v]
        label == IF vip.label_override # "" THEN vip.label_override
                 ELSE find_best_label(t, CombinedText(sender, subject))
        r     == RuleIndex(t, label)
    IN  CategorizationResult(label, vip.tier,
                             IF r = 0 THEN TRUE ELSE t[r].time_sensitive,
                             TierConfig(vip.tier, 1), TRUE)

\* The branch of categorize_with_tier for any other sender
CategorizeNormal(t, sender, subject) ==
    LET label == find_best_label(t, CombinedText(sender, subject))
        r     == RuleIndex(t, label)
    IN  IF r = 0 THEN KeyError
        ELSE CategorizationResult(label, t[r].tier, t[r].time_sensitive,
                                  TierConfig(t[r].tier, 4), FALSE)

categorize_with_tier(t, reg, sender, subject) ==
    LET v == check_vip_sender(reg, sender)
    IN  IF v # 0 THEN CategorizeVip(t, reg, v, sender, subject)
        ELSE CategorizeNormal(t, sender, subject)

\* categorize_from_strings: result.label
categorize_from_strings(t, reg, sender, subject) ==
    categorize_with_tier(t, reg, sender, subject).label

(***************************************************************************)
(* Escalator: escalate_by_age                                              *)
(***************************************************************************)
EscalationResult(e, o, t) ==
    [should_escalate |-> e, original_tier |-> o, escalated_tier |-> t]

\* escalate_by_age without the early return for tier 1.
EscalateNoTierOneGuard(current_tier, email_age_hours, is_time_sensitive) ==
    IF email_age_hours < 24
    THEN EscalationResult(FALSE, current_tier, current_tier)
    ELSE IF 24 <= email_age_hours /\ email_age_hours < 72
    THEN IF is_time_sensitive /\ current_tier >= 3
         THEN EscalationResult(TRUE, current_tier, 2)
         ELSE EscalationResult(FALSE, current_tier, current_tier)
    ELSE EscalationResult(TRUE, current_tier, 1)

\* Mutant: between 24 and 72 hours tiers 3 and 4 escalate whatever the
\* time sensitivity.
EscalateIgnoresSensitivity(current_tier, email_age_hours, is_time_sensitive) ==
    IF current_tier = 1 \/ email_age_hours < 24
    THEN EscalationResult(FALSE, current_tier, current_tier)
    ELSE IF email_age_hours < 72
    THEN IF current_tier >= 3
         THEN EscalationResult(TRUE, current_tier, 2)
         ELSE EscalationResult(FALSE, current_tier, current_tier)
    ELSE EscalationResult(TRUE, current_tier, 1)

escalate_by_age(current_tier, email_age_hours, is_time_sensitive) ==
    IF current_tier = 1
    THEN EscalationResult(FALSE, 1, 1)
    ELSE IF email_age_hours < 24
    THEN EscalationResult(FALSE, current_tier, current_tier)
    ELSE IF 24 <= email_age_hours /\ email_age_hours < 72
    THEN IF is_time_sensitive /\ current_tier >= 3
         THEN EscalationResult(TRUE, current_tier, 2)
         ELSE EscalationResult(FALSE, current_tier, current_tier)
    ELSE IF email_age_hours >= 72
    THEN EscalationResult(TRUE, current_tier, 1)
    ELSE EscalationResult(FALSE, current_tier, current_tier)

(***************************************************************************)
(* State store: StateManager over a JSON state file                        *)
(*                                                                         *)
(* A cursor is None or an opaque page token; None is 0 and a token is a    *)
(* positive number.  A histogram is a dict, a function from the labels it  *)
(* holds to their counts.  last_run and provider play no part in resuming  *)
(* and are left out of the record.                                         *)
(***************************************************************************)
None == 0

StateRecord(c, n, h) ==
    [next_page_token |-> c, total_processed |-> n, history |-> h]

\* StateManager._default_state
default_state == StateRecord(None, 0, <<>>)

\* JSON values: null, a number, a string
JNull == [t |-> "null", v |-> 0]
JNumber(n) == [t |-> "number", v |-> n]
JString(x) == [t |-> "string", v |-> x]

\* json.dump(self.state, f): the document written for a state
json_dump(st) ==
    [next_page_token |-> IF st.next_page_token = None THEN JNull
                         ELSE JString(st.next_page_token),
     total_processed |-> JNumber(st.total_processed),
     history |-> [l \in DOMAIN st.history |-> JNumber(st.history[l])]]

\* json.load(f): the state read back from a document
json_load(doc) ==
    StateRecord(IF doc.next_page_token.t = "null" THEN None
                ELSE doc.next_page_token.v,
                doc.total_processed.v,
                [l \in DOMAIN doc.history |-> doc.history[l].v])

\* The state file: absent, holding a document, or holding text that does
\* not parse (a write that stopped half way)
Absent == [kind |-> "absent", doc |-> json_dump(default_state)]
Unparsable == [kind |-> "unparsable", doc |-> json_dump(default_state)]
Holding(doc) == [kind |-> "json", doc |-> doc]

\* Mutant: a file that is absent or does not parse is read as a record with
\* a cursor
LoadResumable(f) ==
    IF f.kind = "json" THEN json_load(f.doc) ELSE StateRecord(1, 0, <<>>)

\* StateManager._load
load(f) == IF f.kind = "json" THEN json_load(f.doc) ELSE default_state

\* Mutant: save clears the cursor
AssignedNoCursor(st, token, processed_count, history) ==
    StateRecord(None, processed_count, history)

\* The first three assignments of StateManager.save
Assigned(st, token, processed_count, history) ==
    StateRecord(token, processed_count, history)

\* What an open(filename, "w") + json.dump can leave on disk: the document
\* ("ok"), the old file when open fails ("unopened"), or a truncated file
\* when the write fails under way ("partial"); save swallows the exception
WriteOutcomes == {"ok", "unopened", "partial"}

Written(f, st, outcome) ==
    CASE outcome = "ok" -> Holding(json_dump(st))
      [] outcome = "unopened" -> f
      [] outcome = "partial" -> Unparsable

\* A save that writes the record it held before the assignments.
SaveStale(f, st, token, processed_count, history, outcome) ==
    Written(f, st, outcome)

\* StateManager.save: the file it leaves
save(f, st, token, processed_count, history, outcome) ==
    Written(f, Assigned(st, token, processed_count, history), outcome)

NoSave == [made |-> FALSE, page_token |-> None, processed_count |-> 0,
           history |-> <<>>, outcome |-> "ok", at |-> "none"]

SaveRecord(token, processed_count, history, outcome, at) ==
    [made |-> TRUE, page_token |-> token, processed_count |-> processed_count,
     history |-> history, outcome |-> outcome, at |-> at]

\* get_token, get_total, get_history
get_token(st) == st.next_page_token
get_total(st) == st.total_processed
get_history(st) == st.history

\* is_resumable
is_resumable(st) == st.next_page_token # None

(***************************************************************************)
(* Orchestrators: the mailbox, pages, actions and mutation groups          *)
(***************************************************************************)
\* The rule table of gmail_labeler.py, which has priorities only
GMAIL_LABEL_RULES ==
    << Rule("Work/Dev/GitHub",         <<"github">>,     1,   4, FALSE),
       Rule("Work/Dev/Infrastructure", <<"cloudflare">>, 3,   4, FALSE),
       Rule("Finance/Banking",         <<"chase">>,      7,   4, FALSE),
       Rule("Finance/Payments",        <<"statement">>,  8,   4, FALSE),
       Rule("Misc/Other",              <<".*">>,         999, 4, FALSE) >>

PRIORITY_LABELS == {"Finance/Banking", "Tech/Security"}
KEEP_IN_INBOX == {"Finance/Banking", "Tech/Security", "Personal", "Awaiting Reply"}
GMAIL_PRIORITY_LABELS ==
    {"Work/Dev/GitHub", "Work/Dev/Code-Review", "Work/Dev/Infrastructure",
     "Tech/Security", "Finance/Payments", "Finance/Banking", "Awaiting Reply",
     "Personal"}
GMAIL_KEEP_IN_INBOX == {"Personal", "Awaiting Reply", "To Do", "To Respond"}

\* The messages the query lists, in listing order, and their headers
MessageSender(m) ==
    CASE m % 3 = 1 -> <<"github">>
      [] m % 3 = 2 -> <<"CHASE">>
      [] OTHER -> <<>>

MessageSubject(m) == IF m % 3 = 2 THEN <<"statement">> ELSE <<>>

Min(a, b) == IF a < b THEN a ELSE b

\* The messages a query selects, in the order the backing store lists them:
\* the default query selects every message, the other query all but the first
Listing(q) ==
    IF q = "default" THEN [k \in 1..NumMessages |-> k]
    ELSE [k \in 1..(NumMessages - 1) |-> k + 1]

\* messages.list(q = q, maxResults = size, pageToken = token): the ids of the
\* page.  A token is the number of messages listed before the page; None
\* starts at the first message.
ListIds(q, token, size) ==
    LET all == Listing(q)
    IN  [i \in 1..(Min(token + size, Len(all)) - token) |-> all[token + i]]

\* The nextPageToken the backing store may answer with: the token of the
\* rest while messages remain; at the end of the listing none, or a token
\* whose page is empty
NextTokens(q, token, size) ==
    IF token + size < Len(Listing(q)) THEN {token + size}
    ELSE IF token < Len(Listing(q)) THEN {None, token + size}
    ELSE {None}

\* requested is the maxResults of the LIST that returned the page
NoPage == [ids |-> <<>>, next |-> None, requested |-> 0]

\* get_tier_for_label
get_tier_for_label(label) ==
    LET r == RuleIndex(LABEL_RULES, label)
    IN  IF r = 0 THEN 4 ELSE LABEL_RULES[r].tier

\* should_star
should_star(label) ==
    \/ label \in PRIORITY_LABELS
    \/ TierConfig(get_tier_for_label(label), 4).star

\* should_keep_in_inbox
should_keep_in_inbox(label) ==
    \/ label \in KEEP_IN_INBOX
    \/ TierConfig(get_tier_for_label(label), 4).keep_in_inbox

\* stats[label] = stats.get(label, 0) + 1
Incr(h, label) ==
    IF label \in DOMAIN h THEN [h EXCEPT ![label] = @ + 1]
    ELSE [l \in DOMAIN h \cup {label} |-> IF l = label THEN 1 ELSE h[l]]

\* sum of the counts of a histogram
RECURSIVE SumOver(_, _)
SumOver(h, ls) ==
    IF ls = {} THEN 0
    ELSE LET l == CHOOSE x \in ls : TRUE IN h[l] + SumOver(h, ls \ {l})

HistogramSum(h) == SumOver(h, DOMAIN h)

\* The label a message gets: categorize_with_tier(...).label in run_labeler,
\* GmailLabeler.categorize_message in GmailLabeler
LabelOf(i, t, reg, m) ==
    IF i = "cli"
    THEN categorize_with_tier(t, reg, MessageSender(m), MessageSubject(m)).label
    ELSE find_best_label(GMAIL_LABEL_RULES,
                         CombinedText(MessageSender(m), MessageSubject(m)))

\* The key under which a message's mutation is grouped: the label ids to add
\* and to remove.  run_labeler builds a LabelAction (legacy routing) that
\* GmailProvider.apply_actions turns into ids; GmailLabeler.process_batch
\* builds the ids itself.
MutationKey(i, label) ==
    IF i = "cli"
    THEN [add |-> {label} \cup (IF should_star(label) THEN {"STARRED"} ELSE {}),
          remove |-> IF should_keep_in_inbox(label) THEN {} ELSE {"INBOX"}]
    ELSE [add |-> {label} \cup (IF label \in GMAIL_PRIORITY_LABELS THEN {"STARRED"} ELSE {}),
          remove |-> IF label \in GMAIL_KEEP_IN_INBOX THEN {} ELSE {"INBOX"}]

\* The stats after the for-loop over the details of a page
RECURSIVE StatsAfter(_, _, _, _, _, _)
StatsAfter(h, i, t, reg, ids, k) ==
    IF k > Len(ids) THEN h
    ELSE StatsAfter(Incr(h, LabelOf(i, t, reg, ids[k])), i, t, reg, ids, k + 1)

\* batches[key].append(message_id), a dict in insertion order
GroupAdd(groups, key, m) ==
    IF \E g \in 1..Len(groups) : groups[g].key = key
    THEN [g \in 1..Len(groups) |->
              IF groups[g].key = key
              THEN [groups[g] EXCEPT !.ids = Append(@, m)]
              ELSE groups[g]]
    ELSE Append(groups, [key |-> key, ids |-> <<m>>])

RECURSIVE GroupFrom(_, _, _, _, _, _)
GroupFrom(groups, i, t, reg, ids, k) ==
    IF k > Len(ids) THEN groups
    ELSE GroupFrom(GroupAdd(groups, MutationKey(i, LabelOf(i, t, reg, ids[k])), ids[k]),
                   i, t, reg, ids, k + 1)

\* msg_ids[j:j + BATCH_MODIFY_SIZE] for j in range(0, len(msg_ids), BATCH_MODIFY_SIZE)
RECURSIVE ChunksOf(_, _)
ChunksOf(group, from) ==
    IF from > Len(group.ids) THEN <<>>
    ELSE <<[key |-> group.key,
            ids |-> SubSeq(group.ids, from,
                           Min(from + BATCH_MODIFY_SIZE - 1, Len(group.ids)))]>>
         \o ChunksOf(group, from + BATCH_MODIFY_SIZE)

RECURSIVE AllChunks(_, _)
AllChunks(groups, g) ==
    IF g > Len(groups) THEN <<>>
    ELSE ChunksOf(groups[g], 1) \o AllChunks(groups, g + 1)

\* The chunks submitted for a page, in submission order
MutationChunks(i, t, reg, ids) ==
    AllChunks(GroupFrom(<<>>, i, t, reg, ids, 1), 1)

SeqRange(q) == {q[k] : k \in 1..Len(q)}

\* tuple(sorted(ids)): the ids with the number of times each occurs
Sorted(ids) ==
    [x \in SeqRange(ids) |-> Cardinality({k \in 1..Len(ids) : ids[k] = x})]

\* Mutant: star and archive follow the label whether or not tier routing is on.
LabelActionLegacy(mid, cat, tier_routing, remove_label) ==
    [message_id |-> mid,
     add_labels |-> <<cat.label>>,
     remove_labels |-> IF remove_label # "" /\ cat.label # remove_label
                       THEN <<remove_label>> ELSE <<>>,
     star |-> should_star(cat.label),
     archive |-> ~should_keep_in_inbox(cat.label)]

\* The LabelAction run_labeler builds for message mid categorized as cat;
\* remove_label "" is None
LabelAction(mid, cat, tier_routing, remove_label) ==
    [message_id |-> mid,
     add_labels |-> <<cat.label>>,
     remove_labels |-> IF remove_label # "" /\ cat.label # remove_label
                       THEN <<remove_label>> ELSE <<>>,
     star |-> IF tier_routing THEN cat.tier_config.star ELSE should_star(cat.label),
     archive |-> IF tier_routing THEN ~cat.tier_config.keep_in_inbox
                 ELSE ~should_keep_in_inbox(cat.label)]

\* add_ids and remove_ids of an action in GmailProvider.apply_actions; a
\* label's id is written as its name
ActionIds(a) ==
    [message_id |-> a.message_id,
     add |-> a.add_labels \o (IF a.star THEN <<"STARRED">> ELSE <<>>),
     remove |-> a.remove_labels \o (IF a.archive THEN <<"INBOX">> ELSE <<>>)]

\* add_list and remove_list of a message in GmailLabeler.process_batch, with
\* no "Uncategorized" label in the account; remove_source_label "" is None
LabelerIds(mid, label, remove_source_label) ==
    [message_id |-> mid,
     add |-> <<label>> \o (IF label \in GMAIL_PRIORITY_LABELS THEN <<"STARRED">> ELSE <<>>),
     remove |-> (IF remove_source_label # "" /\ label # remove_source_label
                 THEN <<remove_source_label>> ELSE <<>>)
                \o (IF label \in GMAIL_KEEP_IN_INBOX THEN <<>> ELSE <<"INBOX">>)]

\* cat_result of each message of a page in run_labeler
PageResults(t, reg, msgs) ==
    [k \in 1..Len(msgs) |->
        categorize_with_tier(t, reg, msgs[k].sender, msgs[k].subject)]

\* The actions run_labeler builds for a page
PageActions(t, reg, msgs, tier_routing, remove_label) ==
    [k \in 1..Len(msgs) |->
        LabelAction(k, PageResults(t, reg, msgs)[k], tier_routing, remove_label)]

\* The ids decided for the messages of a page, message k having headers
\* msgs[k]
DecidedIds(i, t, reg, msgs, tier_routing, remove_label) ==
    [k \in 1..Len(msgs) |->
        IF i = "cli"
        THEN ActionIds(LabelAction(k, categorize_with_tier(t, reg, msgs[k].sender,
                                                           msgs[k].subject),
                                   tier_routing, remove_label))
        ELSE LabelerIds(k, find_best_label(GMAIL_LABEL_RULES,
                                           CombinedText(msgs[k].sender, msgs[k].subject)),
                        remove_label)]

\* The dict key of a message's bucket: (tuple(sorted(add_ids)),
\* tuple(sorted(remove_ids))) in GmailProvider.apply_actions, (tuple(add_list),
\* tuple(remove_list)) in GmailLabeler.process_batch
BucketKey(i, d) ==
    IF i = "cli" THEN [add |-> Sorted(d.add), remove |-> Sorted(d.remove)]
    ELSE [add |-> d.add, remove |-> d.remove]

RECURSIVE GroupDecided(_, _, _, _)
GroupDecided(groups, i, decided, k) ==
    IF k > Len(decided) THEN groups
    ELSE GroupDecided(GroupAdd(groups, BucketKey(i, decided[k]), decided[k].message_id),
                      i, decided, k + 1)

\* The batchModify bodies submitted for the decided ids, in submission order:
\* ids, and the key whose lists are addLabelIds and removeLabelIds
SubmittedChunks(i, decided) == AllChunks(GroupDecided(<<>>, i, decided, 1), 1)

(***************************************************************************)
(* The decision engine as a state machine: registrations and calls         *)
(***************************************************************************)
Senders == {<<>>} \cup {<<w>> : w \in Words}
Subjects == UNION {[1..n -> Words] : n \in 0..MaxSubject}
Tiers == 1..4
Ages == (0 - 1)..MaxAge

NoCall == [op |-> "none"]

\* No other process has loaded the file; before is the record the file held
\* when the save under way began
NoReader == [seen |-> FALSE, during |-> FALSE, before |-> default_state,
             record |-> default_state]

\* No state file yet and no StateManager constructed
InitStore ==
    /\ file = Absent
    /\ state = default_state
    /\ saved = NoSave
    /\ reader = NoReader

\* ProcessingResult(): the counts and the error strings of a run or of one
\* apply_actions
ProcessingResult == [success_count |-> 0, error_count |-> 0, errors |-> <<>>]

\* No chunk has failed
NoneFailed == [chunks |-> 0, messages |-> 0]

\* No run started
InitIdle ==
    /\ pc = "idle"
    /\ query = "default" /\ limit = 1 /\ has_state = TRUE /\ dry_run = FALSE
    /\ page_token = None /\ total_processed = 0 /\ stats = <<>>
    /\ processed_this_run = 0 /\ page = NoPage /\ chunks = <<>> /\ count = 0
    /\ log = <<>> /\ delay = BASE_BACKOFF_SECONDS /\ waits = <<>>
    /\ exit = "none" /\ submitted = {} /\ runs = 0 /\ first_list = 0 - 1
    /\ pages_done = 0 /\ pages_saved = 0
    /\ started = default_state /\ queries = {} /\ dry_seen = FALSE
    /\ result = ProcessingResult /\ batch_result = ProcessingResult
    /\ failed = NoneFailed

InitEngine ==
    /\ rules \in Taxonomies
    /\ VIP_SENDERS = <<>>
    /\ registered = <<>>
    /\ call = NoCall
    /\ InitStore
    /\ impl = "cli"
    /\ InitIdle

\* apply_vip_senders_from_config / add_vip_sender
AddVip ==
    /\ call = NoCall
    /\ \E k \in VipKeys, p \in VipPatterns, t \in VipTiers, s \in BOOLEAN,
          o \in VipOverrides :
           /\ VIP_SENDERS' = add_vip_sender(VIP_SENDERS, k, p, t, s, o)
           /\ registered' = IF \E i \in 1..Len(registered) : registered[i] = k
                             THEN registered ELSE Append(registered, k)
    /\ UNCHANGED <<rules, call>>
    /\ UNCHANGED <<storeVars, runVars>>

\* categorize_with_tier(sender, subject)
Categorize ==
    /\ call = NoCall
    /\ \E sender \in Senders, subject \in Subjects :
           call' = [op |-> "categorize_with_tier", sender |-> sender,
                    subject |-> subject,
                    result |-> categorize_with_tier(rules, VIP_SENDERS, sender, subject)]
    /\ UNCHANGED <<rules, VIP_SENDERS, registered>>
    /\ UNCHANGED <<storeVars, runVars>>

\* check_vip_sender(sender): (vip, key) of the match, or None
CheckVip ==
    /\ call = NoCall
    /\ \E sender \in Senders :
           LET v == check_vip_sender(VIP_SENDERS, sender)
           IN  call' = [op |-> "check_vip_sender", sender |-> sender,
                        result |-> IF v = 0 THEN [found |-> FALSE]
                                   ELSE [found |-> TRUE, vip |-> VIP_SENDERS[v],
                                         key |-> VIP_SENDERS[v].key]]
    /\ UNCHANGED <<rules, VIP_SENDERS, registered>>
    /\ UNCHANGED <<storeVars, runVars>>

\* escalate_by_age(current_tier, email_age_hours, is_time_sensitive)
Escalate ==
    /\ call = NoCall
    /\ \E tier \in Tiers, age \in Ages, ts \in BOOLEAN :
           call' = [op |-> "escalate_by_age", current_tier |-> tier,
                    email_age_hours |-> age, is_time_sensitive |-> ts,
                    result |-> escalate_by_age(tier, age, ts)]
    /\ UNCHANGED <<rules, VIP_SENDERS, registered>>
    /\ UNCHANGED <<storeVars, runVars>>

\* The caller takes the result
Return ==
    /\ call # NoCall
    /\ call' = NoCall
    /\ UNCHANGED <<rules, VIP_SENDERS, registered>>
    /\ UNCHANGED <<storeVars, runVars>>

NextEngine == AddVip \/ Categorize \/ CheckVip \/ Return

SpecEngine == InitEngine /\ [][NextEngine]_vars

InitEscalate ==
    /\ rules = LABEL_RULES
    /\ VIP_SENDERS = <<>>
    /\ registered = <<>>
    /\ call = NoCall
    /\ InitStore
    /\ impl = "cli"
    /\ InitIdle

NextEscalate == Escalate \/ Return

SpecEscalate == InitEscalate /\ [][NextEscalate]_vars

(***************************************************************************)
(* Grouping and chunking of a page's mutations                             *)
(***************************************************************************)
MaxPage == 3

\* Headers of the messages of a page
PageMessages ==
    {[sender |-> <<"github">>, subject |-> <<>>],
     [sender |-> <<"CHASE">>, subject |-> <<"github">>],
     [sender |-> <<>>, subject |-> <<>>]}

Pages == UNION {[1..n -> PageMessages] : n \in 1..MaxPage}

RemoveLabels == {"", "INBOX"}

\* The registry is empty or holds one entry registered by add_vip_sender
InitGroup ==
    /\ rules = LABEL_RULES
    /\ \/ VIP_SENDERS = <<>> /\ registered = <<>>
       \/ \E p \in VipPatterns, t \in VipTiers :
              /\ VIP_SENDERS = add_vip_sender(<<>>, "vip-a", p, t, TRUE, "")
              /\ registered = <<"vip-a">>
    /\ call = NoCall
    /\ InitStore
    /\ impl = "cli"
    /\ InitIdle

\* Steps 2 and 3 of a page: the decided ids of its messages, grouped and
\* chunked into batchModify bodies
Group ==
    /\ call = NoCall
    /\ \E i \in {"cli", "gmail"}, tier_routing \in BOOLEAN,
          remove_label \in RemoveLabels, msgs \in Pages :
           /\ i = "gmail" => ~tier_routing
           /\ LET decided == DecidedIds(i, rules, VIP_SENDERS, msgs,
                                        tier_routing, remove_label)
              IN  call' = [op |-> "apply_actions", impl |-> i,
                           tier_routing |-> tier_routing,
                           remove_label |-> remove_label,
                           messages |-> msgs,
                           results |-> IF i = "cli"
                                       THEN PageResults(rules, VIP_SENDERS, msgs)
                                       ELSE <<>>,
                           actions |-> IF i = "cli"
                                       THEN PageActions(rules, VIP_SENDERS, msgs,
                                                        tier_routing, remove_label)
                                       ELSE <<>>,
                           decided |-> decided,
                           chunks |-> SubmittedChunks(i, decided)]
    /\ UNCHANGED <<rules, VIP_SENDERS, registered>>
    /\ UNCHANGED <<storeVars, runVars>>

NextGroup == Group \/ Return

SpecGroup == InitGroup /\ [][NextGroup]_vars

(***************************************************************************)
(* FETCH_DETAILS: batch get in sub-batches, failed items fetched one by    *)
(* one                                                                     *)
(***************************************************************************)
BATCH_GET_SIZE == 2     \* the 20 of both implementations, scaled down
MaxFetch == 3

\* What happens to one message: the batch get answers it ("ok"), or the
\* batch callback gets an exception for it and the fetch of that message
\* alone answers, finds no such message (404), fails with another HttpError
\* or stays rate limited through the last attempt of _execute_with_backoff
FetchOutcomes == {"ok", "retry_ok", "retry_404", "retry_error", "retry_exhausted"}

NoDetails == [sub_batches |-> <<>>, results |-> {}, retried |-> <<>>, raised |-> FALSE]

\* The fetch of one failed message: GmailProvider.get_message_details returns
\* None on 404 and lets every other exception pass; GmailLabeler.process_batch
\* catches HttpError and lets the RuntimeError of _execute_with_backoff pass
retry_get(i, o) ==
    CASE o = "retry_ok" -> "details"
      [] o = "retry_404" -> "nothing"
      [] o = "retry_error" -> IF i = "cli" THEN "raise" ELSE "nothing"
      [] OTHER -> "raise"

\* for msg_id in failed_ids: ...
RECURSIVE RetryFrom(_, _, _, _, _)
RetryFrom(i, failed_ids, outcome, k, acc) ==
    IF k > Len(failed_ids) THEN acc
    ELSE LET msg_id == failed_ids[k]
             r == retry_get(i, outcome[msg_id])
             tried == [acc EXCEPT !.retried = Append(@, msg_id)]
         IN  IF r = "raise" THEN [tried EXCEPT !.raised = TRUE, !.results = {}]
             ELSE RetryFrom(i, failed_ids, outcome, k + 1,
                            IF r = "details"
                            THEN [tried EXCEPT !.results = @ \cup {msg_id}]
                            ELSE tried)

\* for chunk in chunks: batch get, then the failed ids one by one; an
\* exception leaves the function and nothing is returned
RECURSIVE FetchFrom(_, _, _, _, _)
FetchFrom(i, message_ids, outcome, from, acc) ==
    IF from > Len(message_ids) \/ acc.raised THEN acc
    ELSE LET chunk == SubSeq(message_ids, from,
                             Min(from + BATCH_GET_SIZE - 1, Len(message_ids)))
             failed_ids == SelectSeq(chunk, LAMBDA x : outcome[x] # "ok")
             answered == {chunk[k] : k \in {j \in 1..Len(chunk) : outcome[chunk[j]] = "ok"}}
             got == [acc EXCEPT !.sub_batches = Append(@, chunk),
                                !.results = @ \cup answered]
         IN  FetchFrom(i, message_ids, outcome, from + BATCH_GET_SIZE,
                       RetryFrom(i, failed_ids, outcome, 1, got))

\* GmailProvider.batch_get_details / step 1 of GmailLabeler.process_batch
batch_get_details(i, message_ids, outcome) ==
    FetchFrom(i, message_ids, outcome, 1, NoDetails)

InitFetch ==
    /\ rules = LABEL_RULES
    /\ VIP_SENDERS = <<>>
    /\ registered = <<>>
    /\ call = NoCall
    /\ InitStore
    /\ impl = "cli"
    /\ InitIdle

\* FETCH_DETAILS of a page of n messages
FetchDetails ==
    /\ call = NoCall
    /\ \E i \in {"cli", "gmail"}, n \in 1..MaxFetch :
       \E outcome \in [1..n -> FetchOutcomes] :
           call' = [op |-> "batch_get_details", impl |-> i,
                    message_ids |-> [k \in 1..n |-> k], outcome |-> outcome,
                    result |-> batch_get_details(i, [k \in 1..n |-> k], outcome)]
    /\ UNCHANGED <<rules, VIP_SENDERS, registered>>
    /\ UNCHANGED <<storeVars, runVars>>

NextFetch == FetchDetails \/ Return

SpecFetch == InitFetch /\ [][NextFetch]_vars

(***************************************************************************)
(* The state store as a state machine: saves and reloads                   *)
(***************************************************************************)
StoredLabels == {"Dev/GitHub", "Misc/Other"}
StoredCursors == {None} \cup 1..MaxStored
StoredTotals == 0..MaxStored
StoredHistories ==
    UNION {[ls -> 1..MaxStored] : ls \in SUBSET StoredLabels}

InitStoreOnly ==
    /\ rules = LABEL_RULES
    /\ VIP_SENDERS = <<>>
    /\ registered = <<>>
    /\ call = NoCall
    /\ InitStore
    /\ impl = "cli"
    /\ InitIdle

\* state.save(page_token, processed_count, history)
Save ==
    /\ saved.at # "writing"
    /\ reader' = NoReader
    /\ \E c \in StoredCursors, n \in StoredTotals, h \in StoredHistories,
          o \in WriteOutcomes :
           /\ file' = save(file, state, c, n, h, o)
           /\ state' = Assigned(state, c, n, h)
           /\ saved' = SaveRecord(c, n, h, o, "direct")
    /\ UNCHANGED <<engineVars, runVars>>

\* StateManager(filename): a new manager on the same path loads the file
Reload ==
    /\ saved.at # "writing"
    /\ state' = load(file)
    /\ saved' = [saved EXCEPT !.at = "reloaded"]
    /\ reader' = NoReader
    /\ UNCHANGED <<file, engineVars, runVars>>

\* StateManager.save up to open(self.filename, "w"): the assignments are made
\* and the open has truncated the file
OpenForWrite ==
    /\ saved.at # "writing"
    /\ \E c \in StoredCursors, n \in StoredTotals, h \in StoredHistories :
           /\ state' = Assigned(state, c, n, h)
           /\ saved' = SaveRecord(c, n, h, "ok", "writing")
    /\ file' = Unparsable
    /\ reader' = [NoReader EXCEPT !.before = load(file)]
    /\ UNCHANGED <<engineVars, runVars>>

\* StateManager.save from json.dump on: the document is written, or the
\* write fails and leaves the truncated file
Dump ==
    /\ saved.at = "writing"
    /\ \E o \in {"ok", "partial"} :
           /\ file' = Written(file, state, o)
           /\ saved' = [saved EXCEPT !.at = "direct", !.outcome = o]
    /\ UNCHANGED <<state, reader, engineVars, runVars>>

\* Another process constructs a StateManager on the path while or after the
\* save writes
ConcurrentLoad ==
    /\ saved.made /\ ~reader.seen
    /\ saved.at \in {"writing", "direct"}
    /\ reader' = [reader EXCEPT !.seen = TRUE, !.during = (saved.at = "writing"),
                                !.record = load(file)]
    /\ UNCHANGED <<file, state, saved, engineVars, runVars>>

NextStore == Save \/ Reload \/ OpenForWrite \/ Dump \/ ConcurrentLoad

SpecStore == InitStoreOnly /\ [][NextStore]_vars

(***************************************************************************)
(* The orchestrators as a state machine: run_labeler and GmailLabeler.run  *)
(***************************************************************************)
CallPcs == {"list", "fetch", "mutate"}
RunningPcs == {"loop", "list", "fetch", "classify", "mutate", "account", "advance",
               "checkpoint", "sleep"}
StoppedPcs == {"idle", "done", "raised"}

\* Mutant: no checkpoint after a page
SavesNoPages == FALSE

\* Mutant: the except handlers do not save
SavesNotOnExit == FALSE

\* The page checkpoint is written: run_labeler with a state file, GmailLabeler
\* on the default query
SavesPages == IF impl = "cli" THEN has_state ELSE query = "default"

\* The except handlers write a checkpoint: run_labeler with a state file,
\* GmailLabeler always
SavesOnExit == IF impl = "cli" THEN has_state ELSE TRUE

\* Mutant: a dry run applies its actions.
AppliesAlways == TRUE

\* if actions and not dry_run: the actions of the page go to apply_actions;
\* GmailLabeler has no dry run
Applies == ~(impl = "cli" /\ dry_run)

\* _execute_with_backoff: the loop makes another attempt
MayAttempt(l) ==
    /\ Len(l) < max_retries
    /\ IF Len(l) = 0 THEN TRUE ELSE l[Len(l)] = "rate"

\* Mutant: the delay grows by the base instead of doubling
NextDelayLinear(d) == d + BASE_BACKOFF_SECONDS

\* _execute_with_backoff: delay *= 2
NextDelay(d) == d * 2

\* _execute_with_backoff: the loop ran out and RuntimeError is raised
Exhausted(l) == IF Len(l) = max_retries THEN l[Len(l)] = "rate" ELSE FALSE

Ended(l, how) == IF Len(l) = 0 THEN FALSE ELSE l[Len(l)] = how

\* The maxResults of the LIST: batch_limit through GmailProvider.list_messages
\* in run_labeler, LIST_PAGE_SIZE in GmailLabeler
\* Mutant: batch_limit does not take off the messages processed so far.
RequestSizeIgnoresProcessed ==
    IF impl = "cli"
    THEN Min(Min(limit, BATCH_LIMIT), LIST_PAGE_SIZE)
    ELSE LIST_PAGE_SIZE

RequestSize ==
    IF impl = "cli"
    THEN Min(Min(limit - processed_this_run, BATCH_LIMIT), LIST_PAGE_SIZE)
    ELSE LIST_PAGE_SIZE

\* state.save(token, n, h) with the write ending as o
DoSave(token, n, h, o, at) ==
    /\ file' = save(file, state, token, n, h, o)
    /\ state' = Assigned(state, token, n, h)
    /\ saved' = SaveRecord(token, n, h, o, at)
    /\ UNCHANGED reader

NewCall ==
    /\ log' = <<>>
    /\ delay' = BASE_BACKOFF_SECONDS
    /\ waits' = <<>>

\* Mutant: a failed chunk is counted as a success
ChunkAnsweredAsSuccess(i, br, ids, how) ==
    IF i = "gmail" THEN br ELSE [br EXCEPT !.success_count = @ + Len(ids)]

\* What the answer to one batchModify leaves in the result of apply_actions:
\* success_count or error_count grows by the size of the chunk and an
\* HttpError adds its string.  GmailLabeler.process_batch keeps no result: it
\* logs the HttpError and goes on.
chunk_answered(i, br, ids, how) ==
    IF i = "gmail" THEN br
    ELSE IF how = "ok" THEN [br EXCEPT !.success_count = @ + Len(ids)]
    ELSE [br EXCEPT !.error_count = @ + Len(ids), !.errors = Append(@, "HttpError")]

\* result.success_count += ..., result.error_count += ..., result.errors.extend
merged(r, br) ==
    [success_count |-> r.success_count + br.success_count,
     error_count |-> r.error_count + br.error_count,
     errors |-> r.errors \o br.errors]

\* Mutant: every run starts from the first page
ResumeFresh(i, q, st) == None

\* The cursor a run starts from: run_labeler takes the persisted one,
\* GmailLabeler.run only on the default query
resume_token(i, q, st) ==
    IF i = "gmail" /\ q # "default" THEN None ELSE get_token(st)

InitRun ==
    /\ rules = LABEL_RULES
    /\ VIP_SENDERS = <<>>
    /\ registered = <<>>
    /\ call = NoCall
    /\ InitStore
    /\ impl \in {"cli", "gmail"}
    /\ InitIdle

\* A process starts: StateManager(state_file), then the locals of run_labeler
\* or of GmailLabeler.__init__ and run
StartRun ==
    /\ pc \in StoppedPcs
    /\ runs < MaxRuns
    /\ \E q \in {"default", "custom"}, lim \in 1..MaxLimit, hs \in BOOLEAN,
          dr \in BOOLEAN :
           /\ impl = "gmail" => (lim = 1 /\ hs /\ ~dr)
           /\ query' = q /\ limit' = lim /\ has_state' = hs /\ dry_run' = dr
           /\ dry_seen' = (dry_seen \/ dr)
           /\ LET st == IF hs THEN load(file) ELSE default_state
              IN  /\ state' = st
                  /\ started' = st
                  /\ page_token' = resume_token(impl, q, st)
                  /\ total_processed' = get_total(st)
                  /\ stats' = get_history(st)
    /\ processed_this_run' = 0 /\ page' = NoPage /\ chunks' = <<>> /\ count' = 0
    /\ NewCall
    /\ exit' = "running" /\ runs' = runs + 1 /\ first_list' = 0 - 1
    /\ pages_done' = 0 /\ pages_saved' = 0
    /\ queries' = queries \cup {query'}
    /\ saved' = NoSave
    /\ pc' = "loop"
    /\ result' = ProcessingResult /\ batch_result' = ProcessingResult
    /\ failed' = NoneFailed
    /\ UNCHANGED <<engineVars, file, reader, impl, submitted>>

\* while processed_this_run < limit / while True
LoopTest ==
    /\ pc = "loop"
    /\ IF impl = "cli" /\ ~(processed_this_run < limit)
       THEN /\ pc' = "done" /\ exit' = "limit"
            /\ UNCHANGED <<first_list, backoffVars>>
       ELSE /\ pc' = "list"
            /\ first_list' = IF first_list = 0 - 1 THEN page_token ELSE first_list
            /\ NewCall
            /\ UNCHANGED exit
    /\ UNCHANGED <<engineVars, storeVars, paramVars, localVars, submitted, runs,
                   pages_done, pages_saved, started, queries, dry_seen,
                   resultVars>>

\* _execute_with_backoff: one attempt of the call; it succeeds, is rate
\* limited (sleep, double the delay, go on) or fails with another HttpError
Attempt ==
    /\ pc \in CallPcs
    /\ MayAttempt(log)
    /\ \E o \in {"ok", "rate", "error"} :
           /\ log' = Append(log, o)
           /\ IF o = "rate"
              THEN waits' = Append(waits, delay) /\ delay' = NextDelay(delay)
              ELSE UNCHANGED <<waits, delay>>
    /\ UNCHANGED <<engineVars, storeVars, pc, paramVars, localVars, historyVars,
                   resultVars>>

\* _execute_with_backoff raises RuntimeError after the last attempt; a LIST
\* or batch get that fails with another HttpError raises it.  Both reach the
\* except Exception handler of the run.
Raise ==
    /\ pc \in CallPcs
    /\ \/ Exhausted(log)
       \/ pc \in {"list", "fetch"} /\ Ended(log, "error")
    /\ pc' = "fatal"
    /\ UNCHANGED <<engineVars, storeVars, paramVars, localVars, backoffVars, historyVars,
                   resultVars>>

\* Mutant: an empty page does not end the run; the loop lists again.
ListReturnLoopsOnEmpty ==
    /\ pc = "list"
    /\ Ended(log, "ok")
    /\ LET ids == ListIds(query, page_token, RequestSize)
       IN  IF ids = <<>>
           THEN /\ pc' = "loop" /\ UNCHANGED exit
                /\ page' = [NoPage EXCEPT !.requested = RequestSize]
                /\ IF impl = "gmail" /\ query = "default"
                   THEN \E o \in WriteOutcomes :
                            DoSave(None, total_processed, stats, o, "exhausted")
                   ELSE UNCHANGED storeVars
                /\ UNCHANGED backoffVars
           ELSE /\ \E nxt \in NextTokens(query, page_token, RequestSize) :
                       page' = [ids |-> ids, next |-> nxt, requested |-> RequestSize]
                /\ pc' = "fetch"
                /\ NewCall
                /\ UNCHANGED <<storeVars, exit>>
    /\ UNCHANGED <<engineVars, paramVars, page_token, total_processed, stats,
                   processed_this_run, chunks, count, submitted, runs, first_list,
                   pages_done, pages_saved, started, queries, dry_seen,
                   resultVars>>

\* LIST returned: an empty page ends the run (GmailLabeler on the default
\* query saves a null cursor first), any other page goes to FETCH_DETAILS
ListReturn ==
    /\ pc = "list"
    /\ Ended(log, "ok")
    /\ LET ids == ListIds(query, page_token, RequestSize)
       IN  IF ids = <<>>
           THEN /\ pc' = "done" /\ exit' = "exhausted"
                /\ page' = [NoPage EXCEPT !.requested = RequestSize]
                /\ IF impl = "gmail" /\ query = "default"
                   THEN \E o \in WriteOutcomes :
                            DoSave(None, total_processed, stats, o, "exhausted")
                   ELSE UNCHANGED storeVars
                /\ UNCHANGED backoffVars
           ELSE /\ \E nxt \in NextTokens(query, page_token, RequestSize) :
                       page' = [ids |-> ids, next |-> nxt, requested |-> RequestSize]
                /\ pc' = "fetch"
                /\ NewCall
                /\ UNCHANGED <<storeVars, exit>>
    /\ UNCHANGED <<engineVars, paramVars, page_token, total_processed, stats,
                   processed_this_run, chunks, count, submitted, runs, first_list,
                   pages_done, pages_saved, started, queries, dry_seen,
                   resultVars>>

\* The batch get returned the details of the page
FetchReturn ==
    /\ pc = "fetch"
    /\ Ended(log, "ok")
    /\ pc' = "classify"
    /\ UNCHANGED <<engineVars, storeVars, paramVars, localVars, backoffVars, historyVars,
                   resultVars>>

\* CLASSIFY and GROUP: every message of the page is categorized and counted
\* in stats, and the mutations are grouped into chunks
Classify ==
    /\ pc = "classify"
    /\ stats' = StatsAfter(stats, impl, rules, VIP_SENDERS, page.ids, 1)
    /\ chunks' = IF Applies THEN MutationChunks(impl, rules, VIP_SENDERS, page.ids)
                 ELSE <<>>
    /\ count' = Len(page.ids)
    /\ pc' = IF Applies THEN "mutate" ELSE "account"
    /\ NewCall
    /\ batch_result' = ProcessingResult
    /\ UNCHANGED <<result, failed>>
    /\ UNCHANGED <<engineVars, storeVars, paramVars, page_token, total_processed,
                   processed_this_run, page, historyVars>>

\* MUTATE: the batchModify of the first chunk left was answered, with success
\* or with an HttpError that is logged; the next chunk follows
MutateReturn ==
    /\ pc = "mutate"
    /\ Ended(log, "ok") \/ Ended(log, "error")
    /\ submitted' = submitted \cup SeqRange(chunks[1].ids)
    /\ chunks' = Tail(chunks)
    /\ pc' = IF Tail(chunks) = <<>> THEN "account" ELSE "mutate"
    /\ NewCall
    /\ batch_result' = chunk_answered(impl, batch_result, chunks[1].ids, log[Len(log)])
    /\ failed' = IF Ended(log, "error")
                 THEN [chunks |-> failed.chunks + 1,
                       messages |-> failed.messages + Len(chunks[1].ids)]
                 ELSE failed
    /\ UNCHANGED result
    /\ UNCHANGED <<engineVars, storeVars, paramVars, page_token, total_processed, stats,
                   processed_this_run, page, count, exit, runs, first_list,
                   pages_done, pages_saved, started, queries, dry_seen>>

\* The counters take the page in; run_labeler first adds the counts and the
\* errors apply_actions returned to its own result
Account ==
    /\ pc = "account"
    /\ total_processed' = total_processed + count
    /\ processed_this_run' = processed_this_run + count
    /\ result' = IF impl = "cli"
                 THEN IF Applies THEN merged(result, batch_result)
                      ELSE [result EXCEPT !.success_count = @ + count]
                 ELSE result
    /\ batch_result' = ProcessingResult
    /\ pc' = "advance"
    /\ UNCHANGED failed
    /\ UNCHANGED <<engineVars, storeVars, paramVars, page_token, stats, page, chunks,
                   count, backoffVars, historyVars>>

\* page_token = the nextPageToken of the page
Advance ==
    /\ pc = "advance"
    /\ page_token' = page.next
    /\ pages_done' = pages_done + 1
    /\ pc' = "checkpoint"
    /\ UNCHANGED <<engineVars, storeVars, paramVars, total_processed, stats,
                   processed_this_run, page, chunks, count, backoffVars, exit, submitted,
                   runs, first_list, pages_saved, started, queries, dry_seen,
                   resultVars>>

\* Mutant: a failed write of the checkpoint reaches the except Exception
\* handler of the run.
CheckpointAbortsOnFailure ==
    /\ pc = "checkpoint"
    /\ SavesPages
    /\ \E o \in WriteOutcomes :
           /\ DoSave(page_token, total_processed, stats, o, "page")
           /\ pages_saved' = IF o = "ok" THEN pages_done ELSE pages_saved
           /\ pc' = IF o = "ok" THEN "sleep" ELSE "fatal"
    /\ UNCHANGED <<engineVars, paramVars, localVars, backoffVars, exit, submitted, runs,
                   first_list, pages_done, started, queries, dry_seen,
                   resultVars>>

\* CHECKPOINT: state.save(page_token, total_processed, stats)
Checkpoint ==
    /\ pc = "checkpoint"
    /\ IF SavesPages
       THEN \E o \in WriteOutcomes :
                /\ DoSave(page_token, total_processed, stats, o, "page")
                /\ pages_saved' = IF o = "ok" THEN pages_done ELSE pages_saved
       ELSE UNCHANGED <<storeVars, pages_saved>>
    /\ pc' = "sleep"
    /\ UNCHANGED <<engineVars, paramVars, localVars, backoffVars, exit, submitted, runs,
                   first_list, pages_done, started, queries, dry_seen,
                   resultVars>>

\* The throttle sleep, then: if not page_token: break
Sleep ==
    /\ pc = "sleep"
    /\ IF page_token = None
       THEN pc' = "done" /\ exit' = "completed"
       ELSE pc' = "loop" /\ UNCHANGED exit
    /\ UNCHANGED <<engineVars, storeVars, paramVars, localVars, backoffVars, submitted,
                   runs, first_list, pages_done, pages_saved, started, queries, dry_seen,
                   resultVars>>

\* KeyboardInterrupt anywhere in the try block: the handler saves and the run
\* returns
Interrupt ==
    /\ pc \in RunningPcs
    /\ IF SavesOnExit
       THEN \E o \in WriteOutcomes :
                DoSave(page_token, total_processed, stats, o, "interrupt")
       ELSE UNCHANGED storeVars
    /\ pc' = "done" /\ exit' = "interrupted"
    /\ UNCHANGED <<engineVars, paramVars, localVars, backoffVars, submitted, runs,
                   first_list, pages_done, pages_saved, started, queries, dry_seen,
                   resultVars>>

\* except Exception: the handler saves; run_labeler re-raises, GmailLabeler.run
\* logs the error and returns
HandleFatal ==
    /\ pc = "fatal"
    /\ IF SavesOnExit
       THEN \E o \in WriteOutcomes :
                DoSave(page_token, total_processed, stats, o, "fatal")
       ELSE UNCHANGED storeVars
    /\ pc' = IF impl = "cli" THEN "raised" ELSE "done"
    /\ exit' = "fatal"
    /\ UNCHANGED <<engineVars, paramVars, localVars, backoffVars, submitted, runs,
                   first_list, pages_done, pages_saved, started, queries, dry_seen,
                   resultVars>>

Next ==
    \/ StartRun \/ LoopTest \/ Attempt \/ Raise \/ ListReturn \/ FetchReturn
    \/ Classify \/ MutateReturn \/ Account \/ Advance \/ Checkpoint \/ Sleep \/ Interrupt
    \/ HandleFatal

Spec == InitRun /\ [][Next]_vars

\* A step of a run under way: the loop body and the handlers run on by
\* themselves; starting a process and interrupting it are up to the user
RunStep ==
    \/ LoopTest \/ Attempt \/ Raise \/ ListReturn \/ FetchReturn
    \/ MutateReturn \/ Account \/ Advance \/ Checkpoint \/ Sleep \/ HandleFatal

\* The first process on a fresh state store
StartFirstRun == runs = 0 /\ StartRun

NextFair == StartFirstRun \/ RunStep \/ Classify \/ Interrupt

\* Classify is enabled exactly when pc = "classify" and always leaves it, so
\* its weak fairness is that the run is not at "classify" for ever
ClassifyTaken == []<>(pc # "classify")

\* One run with every call answered and every step of the program taken
FairSpec == InitRun /\ [][NextFair]_vars /\ WF_vars(RunStep) /\ ClassifyTaken

(***************************************************************************)
(* Claims on the decision engine                                           *)
(***************************************************************************)
IsCategorize == call.op = "categorize_with_tier"
IsEscalate == call.op = "escalate_by_age"
IsCheckVip == call.op = "check_vip_sender"
IsGroup == call.op = "apply_actions"
IsFetch == call.op = "batch_get_details"

\* The first registered VIP entry matching the sender of the call carries a
\* label_override
OverrideApplies ==
    \E i \in 1..Len(VIP_SENDERS) :
        /\ VipMatches(VIP_SENDERS[i], call.sender)
        /\ \A j \in 1..(i - 1) : ~VipMatches(VIP_SENDERS[j], call.sender)
        /\ VIP_SENDERS[i].label_override # ""

C2_LowestPriorityFirstDeclared ==
    (IsCategorize /\ ~OverrideApplies) =>
        LET text == CombinedText(call.sender, call.subject)
        IN  \E r \in 1..Len(rules) :
                /\ rules[r].name = call.result.label
                /\ RuleMatches(rules[r], text)
                /\ \A j \in 1..Len(rules) :
                       RuleMatches(rules[j], text) =>
                           /\ rules[r].priority <= rules[j].priority
                           /\ rules[j].priority = rules[r].priority => r <= j

\* C2 witness: in the table declared in reverse, the catch-all matches first,
\* two rules of priority 3 match later, and the first declared of the two wins.
C2_Witness ==
    /\ IsCategorize /\ ~OverrideApplies
    /\ rules = Redeclared(LABEL_RULES)
    /\ call.sender = <<"cloudflare">> /\ call.subject = <<"unity">>
    /\ call.result.label = "Dev/GameDev"

\* C3: when some VIP pattern matches the sender the result has is_vip set and
\* the tier of the first registered matching entry.
C3_VipTierWins ==
    (IsCategorize /\ \E i \in 1..Len(VIP_SENDERS) : VipMatches(VIP_SENDERS[i], call.sender)) =>
        /\ call.result.is_vip
        /\ \E i \in 1..Len(VIP_SENDERS) :
               /\ VipMatches(VIP_SENDERS[i], call.sender)
               /\ \A j \in 1..(i - 1) : ~VipMatches(VIP_SENDERS[j], call.sender)
               /\ call.result.tier = VIP_SENDERS[i].tier

\* C3 witness: a tier-3 VIP entry matches a sender that the classifier puts in
\* Finance/Banking, a tier-1 rule; a second entry of tier 1 matches it too.
C3_Witness ==
    /\ IsCategorize
    /\ Len(VIP_SENDERS) = 2
    /\ \A i \in 1..2 : VipMatches(VIP_SENDERS[i], call.sender)
    /\ VIP_SENDERS[1].tier = 3 /\ VIP_SENDERS[2].tier = 1
    /\ call.result.label = "Finance/Banking"
    /\ call.result.tier = 3

\* C4: escalate_by_age reports the tier it was given as original_tier, never
\* returns an escalated_tier above it, and for tier 1 does not escalate.
C4_EscalationMonotone ==
    IsEscalate =>
        /\ call.result.original_tier = call.current_tier
        /\ call.result.escalated_tier <= call.result.original_tier
        /\ call.current_tier = 1 =>
               /\ ~call.result.should_escalate
               /\ call.result.escalated_tier = 1

\* C4 witness: a time-sensitive tier-1 message older than 72 hours is left
\* at tier 1.
C4_Witness ==
    /\ IsEscalate
    /\ call.current_tier = 1 /\ call.email_age_hours >= 72 /\ call.is_time_sensitive
    /\ ~call.result.should_escalate

\* The place of key k in the order of first registration.
RegisteredAt(k) == CHOOSE i \in 1..Len(registered) : registered[i] = k

\* The entries of the registry whose pattern matches the sender of the call.
Matching == {i \in 1..Len(VIP_SENDERS) : VipMatches(VIP_SENDERS[i], call.sender)}

\* C17: after any sequence of add_vip_sender registrations check_vip_sender
\* returns, among the entries whose pattern matches the sender, the one whose
\* key was registered first, and returns None exactly when no entry matches.
C17_FirstRegisteredMatch ==
    IsCheckVip =>
        /\ call.result.found <=> Matching # {}
        /\ call.result.found =>
               \E i \in Matching :
                   /\ call.result.vip = VIP_SENDERS[i]
                   /\ call.result.key = VIP_SENDERS[i].key
                   /\ \A j \in Matching :
                          RegisteredAt(VIP_SENDERS[i].key) <= RegisteredAt(VIP_SENDERS[j].key)

\* C17 witness: two entries match the sender and the one returned is the one
\* whose key was registered first, not the other.
C17_Witness ==
    /\ IsCheckVip
    /\ Cardinality(Matching) = 2
    /\ call.result.found
    /\ call.result.key = registered[1]
    /\ \E j \in Matching : VIP_SENDERS[j].key # call.result.key

C18_VipIsTimeSensitive ==
    (IsCategorize /\ Matching # {}) =>
        LET i == CHOOSE k \in Matching : \A j \in Matching : k <= j
        IN  VIP_SENDERS[i].label_override = "" =>
                /\ call.result.label =
                       find_best_label(rules, CombinedText(call.sender, call.subject))
                /\ call.result.tier = VIP_SENDERS[i].tier
                /\ call.result.time_sensitive

\* The add-label set and the remove-label set of a list pair or of a key.
IdSets(d) ==
    [add |-> IF Len(d.add) = 0 THEN {} ELSE SeqRange(d.add),
     remove |-> IF Len(d.remove) = 0 THEN {} ELSE SeqRange(d.remove)]

KeySets(i, key) ==
    IF i = "cli" THEN [add |-> DOMAIN key.add, remove |-> DOMAIN key.remove]
    ELSE IdSets(key)

\* The chunks of the call that hold message m.
ChunksHolding(m) ==
    {n \in 1..Len(call.chunks) : m \in SeqRange(call.chunks[n].ids)}

BucketOf(m) == call.chunks[CHOOSE n \in ChunksHolding(m) : TRUE].key

\* Each decided message is in exactly one submitted chunk, once.
C19_Partition ==
    /\ \A k \in 1..Len(call.decided) :
           /\ Cardinality(ChunksHolding(k)) = 1
           /\ \A n \in ChunksHolding(k) :
                  Cardinality({j \in 1..Len(call.chunks[n].ids) :
                                   call.chunks[n].ids[j] = k}) = 1
    /\ \A n \in 1..Len(call.chunks) :
           SeqRange(call.chunks[n].ids) \subseteq 1..Len(call.decided)

\* A chunk carries the sets decided for its messages and keeps to the
\* maximum batch size.
C19_ChunksCarryDecided ==
    \A n \in 1..Len(call.chunks) :
        /\ Len(call.chunks[n].ids) \in 1..BATCH_MODIFY_SIZE
        /\ \A m \in SeqRange(call.chunks[n].ids) :
               KeySets(call.impl, call.chunks[n].key) = IdSets(call.decided[m])

\* C19: the submitted chunks partition the decided messages of a page; two
\* messages are in the same bucket exactly when their add-label sets and
\* their remove-label sets are equal as sets; every chunk carries the sets
\* decided for its messages; no chunk exceeds BATCH_MODIFY_SIZE.
C19_GroupPartitions ==
    IsGroup =>
        /\ C19_Partition
        /\ C19_ChunksCarryDecided
        /\ \A a, b \in 1..Len(call.decided) :
               (BucketOf(a) = BucketOf(b)) <=>
                   (IdSets(call.decided[a]) = IdSets(call.decided[b]))

\* The messages of the call whose item of the batch get failed.
FailedItems ==
    {m \in SeqRange(call.message_ids) : call.outcome[m] # "ok"}

\* No sub-batch exceeds BATCH_GET_SIZE, and the items fetched one by one are
\* the failed items of the sub-batches fetched, each once.
C20_RetriesOnlyFailed ==
    /\ \A n \in 1..Len(call.result.sub_batches) :
           Len(call.result.sub_batches[n]) \in 1..BATCH_GET_SIZE
    /\ SeqRange(call.result.retried) \subseteq FailedItems
    /\ \A j, k \in 1..Len(call.result.retried) :
           call.result.retried[j] = call.result.retried[k] => j = k

\* C20: in FETCH_DETAILS no sub-batch exceeds BATCH_GET_SIZE; exactly the
\* items that failed in a sub-batch are fetched again one by one; the other
\* items keep their results; and no exception leaves FETCH_DETAILS to fail the
\* page and the run, even when the fetch of one item fails too.
C20_ItemFailuresTolerated ==
    IsFetch =>
        /\ C20_RetriesOnlyFailed
        /\ SeqRange(call.result.retried) = FailedItems
        /\ \A m \in SeqRange(call.message_ids) :
               call.outcome[m] \in {"ok", "retry_ok"} => m \in call.result.results
        /\ ~call.result.raised

(***************************************************************************)
(* Claims on the state store                                               *)
(***************************************************************************)
Reloaded == saved.made /\ saved.at = "reloaded"

SameAsSaved(st) ==
    /\ st.next_page_token = saved.page_token
    /\ st.total_processed = saved.processed_count
    /\ st.history = saved.history

C14_SaveAtomic ==
    (reader.seen /\ reader.during) =>
        \/ reader.record = reader.before
        \/ SameAsSaved(reader.record)

\* C15: loading a State Store whose file is absent or does not parse gives
\* the default record: null cursor, total 0, empty histogram.
C15_LoadDefaults ==
    /\ file.kind \in {"absent", "unparsable"} =>
           /\ load(file) = default_state
           /\ get_token(load(file)) = None
           /\ get_total(load(file)) = 0
           /\ get_history(load(file)) = <<>>
           /\ ~is_resumable(load(file))
    /\ (Reloaded /\ file.kind \in {"absent", "unparsable"}) => state = default_state

\* C15 witness: a new manager was constructed on a file that a failed write
\* had left truncated, after a record with a cursor had been saved.
C15_Witness ==
    /\ Reloaded /\ file.kind = "unparsable"
    /\ saved.page_token # None /\ saved.processed_count > 0
    /\ state = default_state

(***************************************************************************)
(* Claims on the orchestrators                                             *)
(***************************************************************************)
\* The run constructed a StateManager
HasStore == impl = "gmail" \/ has_state

\* Cursor-based resumption is active for the run
ResumptionActive == IF impl = "cli" THEN has_state ELSE query = "default"

\* The record of the locals page_token, total_processed and stats
Progress == StateRecord(page_token, total_processed, stats)

\* The last save had the locals of the run as its arguments
SavedProgress(at) ==
    /\ saved.made /\ saved.at = at
    /\ saved.page_token = page_token
    /\ saved.processed_count = total_processed
    /\ saved.history = stats

\* The cursor the run started from
Origin == IF first_list = 0 - 1 THEN page_token ELSE first_list

\* The messages of the listing of q from position a to position b
Between(q, a, b) ==
    {Listing(q)[k] : k \in {j \in (a + 1)..b : j <= Len(Listing(q))}}

\* The total and the histogram go on from the record the run loaded
Continues ==
    pc # "idle" =>
        /\ total_processed = started.total_processed + processed_this_run
        /\ \A l \in DOMAIN started.history :
               l \in DOMAIN stats /\ stats[l] >= started.history[l]

\* With one listing for all runs so far and no dry run among them, every
\* message before the persisted cursor has had its mutation submitted
NoSkip ==
    \A q \in queries :
        (queries = {q} /\ ~dry_seen) =>
            Between(q, 0, get_token(load(file))) \subseteq submitted

\* With one listing for all runs so far and no dry run among them, a run
\* that ends at the end of the listing leaves no message unsubmitted
Covered ==
    (exit \in {"completed", "exhausted"} /\ queries = {query} /\ ~dry_seen) =>
        Between(query, 0, Len(Listing(query))) \subseteq submitted

NotBeyond ==
    (exit = "interrupted" /\ saved.made /\ ~dry_run) =>
        Between(query, Origin, saved.page_token) \subseteq submitted

\* Until the page has been through MUTATE, page_token is the cursor the page
\* was listed with
CursorOfPageInProgress ==
    pc \in {"fetch", "classify", "mutate"} =>
        page.ids = ListIds(query, page_token, RequestSize)

C9_FatalReraises ==
    exit = "fatal" =>
        /\ HasStore => SavedProgress("fatal")
        /\ pc = "raised"

RECURSIVE Pow2(_)
Pow2(n) == IF n = 0 THEN 1 ELSE 2 * Pow2(n - 1)

RateLimited(l) == {k \in 1..Len(l) : l[k] = "rate"}

\* C10: a call is attempted at most max_retries times and only after
\* rate-limited attempts; the wait after the k-th rate-limited attempt is
\* BASE_BACKOFF_SECONDS * 2^(k-1); a call rate-limited max_retries times
\* raises and is not attempted again, nor is a call that succeeded.
C10_Backoff ==
    /\ Len(log) <= max_retries
    /\ \A k \in 1..(Len(log) - 1) : log[k] = "rate"
    /\ Len(waits) = Cardinality(RateLimited(log))
    /\ \A k \in 1..Len(waits) : waits[k] = BASE_BACKOFF_SECONDS * Pow2(k - 1)
    /\ (pc = "fatal" /\ Ended(log, "rate")) => Len(log) = max_retries
    /\ (pc \in CallPcs /\ Exhausted(log)) => (ENABLED Raise /\ ~ENABLED Attempt)
    /\ (pc \in CallPcs /\ Ended(log, "ok")) => ~ENABLED Attempt

\* C10 witness: a call rate-limited on all five attempts has raised.
C10_Witness ==
    /\ pc = "fatal"
    /\ log = <<"rate", "rate", "rate", "rate", "rate">>
    /\ waits = <<10, 20, 40, 80, 160>>

\* The counts and the error strings of the run so far, those of the
\* apply_actions under way included
Recorded == merged(result, batch_result)

\* Every failed chunk is in the record with its size and one error string
FailuresRecorded ==
    /\ Recorded.error_count = failed.messages
    /\ Len(Recorded.errors) = failed.chunks

\* After MUTATE (there is none in a dry run) every message of the page has
\* been submitted, and a chunk answered with a non-retryable error did not
\* abort the run
ChunksAllSubmitted ==
    /\ (pc \in {"account", "advance", "checkpoint", "sleep"} /\ ~dry_run) =>
           SeqRange(page.ids) \subseteq submitted
    /\ (pc = "account" /\ impl = "cli" /\ ~dry_run) =>
           batch_result.success_count + batch_result.error_count = count
    /\ (pc = "fatal" /\ Ended(log, "error")) => chunks = <<>>

C12_EmptyPageClearsCursor ==
    exit = "exhausted" =>
        /\ chunks = <<>> /\ page.ids = <<>>
        /\ total_processed = started.total_processed + processed_this_run
        /\ (ResumptionActive /\ saved.outcome = "ok") => get_token(load(file)) = None

\* The run stopped at the limit while the backing store had reported a
\* further page
StoppedAtLimit == exit = "limit" /\ page_token # None

\* A run with a state file starts
Restarts == pc \in StoppedPcs /\ pc' = "loop" /\ has_state'

C22_TierRoutingFlags ==
    (IsGroup /\ call.impl = "cli" /\ call.tier_routing) =>
        \A k \in 1..Len(call.actions) :
            LET a == call.actions[k]
                tier == call.results[k].tier
            IN  /\ tier = 1 => (a.star /\ ~a.archive)
                /\ tier = 4 => (a.archive /\ ~a.star)
                /\ tier \in 1..4 => (a.archive <=> ~PRIORITY_TIERS[tier].keep_in_inbox)

\* C22 witness: a page routed by tier with a tier-1 result (a VIP sender
\* whose label's rule has tier 2) that is starred and kept, and a tier-4
\* result that is archived and not starred.
C22_Witness ==
    /\ IsGroup /\ call.impl = "cli" /\ call.tier_routing
    /\ \E j, k \in 1..Len(call.actions) :
           /\ call.results[j].tier = 1 /\ call.results[j].is_vip
           /\ get_tier_for_label(call.results[j].label) = 2
           /\ call.actions[j].star /\ ~call.actions[j].archive
           /\ call.results[k].tier = 4
           /\ call.actions[k].archive /\ ~call.actions[k].star

\* C24: in a labeling run a message whose sender matches a VIP entry
\* registered with star = TRUE gets an action with star = TRUE, with or
\* without tier routing.
C24_VipStarDecides ==
    (IsGroup /\ call.impl = "cli") =>
        \A k \in 1..Len(call.actions) :
            LET v == check_vip_sender(VIP_SENDERS, call.messages[k].sender)
            IN  (v # 0 /\ VIP_SENDERS[v].star) => call.actions[k].star


\* C23: in the taxonomy the classifier scans no two rules have the same
\* priority number.
C23_DistinctPriorities ==
    \A i, j \in 1..Len(rules) :
        i # j => rules[i].priority # rules[j].priority


\* C25: a dry run of run_labeler submits no mutation: it never reaches
\* MUTATE, holds no chunk to submit, and no message joins the submitted ones.
C25_DryRunSubmitsNothing ==
    /\ [](dry_run => (pc # "mutate" /\ chunks = <<>>))
    /\ [][dry_run' => submitted' = submitted]_vars

\* C25 witness: a dry run stopped at its limit after a page of two messages,
\* both counted as successes, with nothing submitted by any run.
C25_Witness ==
    /\ impl = "cli" /\ dry_run /\ pc = "done" /\ exit = "limit"
    /\ processed_this_run = 2 /\ result.success_count = 2
    /\ submitted = {}

\* C26: a run of GmailLabeler with another query than the default starts
\* from the first page and never writes into the State Store, on any exit
\* path, so the persisted cursor stays as the run found it.
C26_OtherQueryLeavesCursor ==
    (impl = "gmail" /\ query # "default" /\ pc # "idle") =>
        /\ first_list \in {0 - 1, None}
        /\ ~saved.made
        /\ get_token(load(file)) = get_token(started)

\* C27: starting from a fresh state, every checkpoint written (after a page,
\* on interruption, on a fatal error) has a total processed count equal to
\* the sum of the counts of its histogram.
C27_TotalIsHistogramSum ==
    (runs = 1 /\ started = default_state /\ saved.made) =>
        saved.processed_count = HistogramSum(saved.history)

\* C28: a run of run_labeler never processes more messages than its limit,
\* and every LIST asks for at most min(limit - processed so far, batch limit)
\* messages.
C28_LimitRespected ==
    (impl = "cli" /\ pc # "idle") =>
        /\ processed_this_run <= limit
        /\ pc \in {"fetch", "classify", "mutate", "account"} =>
               /\ page.requested <= Min(limit - processed_this_run, BATCH_LIMIT)
               /\ Len(page.ids) <= page.requested
        /\ (pc = "done" /\ exit = "exhausted") =>
               page.requested <= Min(limit - processed_this_run, BATCH_LIMIT)

\* C28 witness: a run with limit 2 that had processed one message asked for
\* one more and got an empty page.
C28_Witness ==
    /\ impl = "cli" /\ limit = 2 /\ processed_this_run = 1
    /\ pc = "done" /\ exit = "exhausted"
    /\ page.requested = 1

\* C29: a dry run with a state file leaves the cursor and the total of the
\* State Store as it found them.
C29_DryRunLeavesStore ==
    (impl = "cli" /\ dry_run /\ has_state /\ pc # "idle") =>
        /\ get_token(load(file)) = get_token(started)
        /\ get_total(load(file)) = get_total(started)


\* The ways a run ends.
Terminated ==
    /\ pc \in StoppedPcs
    /\ exit \in {"exhausted", "completed", "limit", "fatal", "interrupted"}

\* C30: when every call is answered and the listing ends after finitely many
\* pages, every run terminates, by exhaustion (an empty page or a null next
\* cursor), by the limit or by a fatal error, and no call is attempted more
\* often than the retry ceiling.
C30_RunsTerminate ==
    /\ [](Len(log) <= max_retries)
    /\ [](exit = "fatal" => pc \in {"done", "raised"})
    /\ (pc \in RunningPcs \cup {"fatal"}) ~> Terminated

\* C30 witness: a run ended by a fatal error after the retry ceiling of
\* rate-limited attempts on the LIST of its second page.
C30_Witness ==
    /\ Terminated /\ exit = "fatal"
    /\ Len(log) = max_retries /\ log[max_retries] = "rate"
    /\ pages_done = 1

=============================================================================
